---- MODULE Spec2Model ----
(***************************************************************************)
(* Model of fabfile.py, the release automation of ShiftIt: credential      *)
(* resolution (DecryptedFiles), milestone resolution (_get_milestone),     *)
(* release-notes generation (_gen_release_notes) and the tasks build,      *)
(* archive, release_notes, appcast and release.                            *)
(*                                                                         *)
(* A str is the sequence of the code points of its characters (ord), so    *)
(* that startswith, endswith, strip and % are computed and not assumed.    *)
(***************************************************************************)
EXTENDS Integers, Sequences, FiniteSets, TLC

VARIABLES
    \* DecryptedFiles and the gpg tool
    gpg_present,      \* whether `import sh; sh.Command('gpg')` succeeded (lines 7-13)
    tempfiles,        \* DecryptedFiles.tempfiles: retained temporary files
    gpg_calls,        \* the source paths gpg('-d', path) was invoked on, in order
    resolved,         \* the calls of get_decrypted_key_path made so far: path, result
    \* the tracker (github repository `shiftit`)
    milestones,       \* what shiftit.iter_milestones() yields, in order
    issues,           \* the issues of the repository, in fetch order
    tracker_changes,  \* number of changes of the tracker since the task started
    \* module-level configuration
    proj_version,
    \* the file system
    app_dir,          \* whether the build output proj_app_dir exists
    archive_file,     \* proj_archive_path: size in bytes, 0 when the file is absent
    notes_file,       \* proj_release_notes_html_file
    appcast_file,     \* proj_appcast_file
    \* the running task
    task,             \* the task invoked on the command line
    pc,               \* position in the task
    err,              \* the exception that ended the task, "" when none
    milestone,        \* the local `milestone` of the function executing
    appcast_url,      \* the local `appcast_url` of appcast
    release_notes,    \* the context dict last handed to pystache.render (line 203)
    out,              \* the lines printed by puts/print, in order
    printed_notes,    \* the Markdown notes printed by line 351
    diff_rc,          \* exit code of `git diff-index --quiet HEAD --`
    build_rc,         \* exit code of xcodebuild
    archive_rc,       \* exit code of ditto
    sign_rc,          \* exit code of sign_update
    signature,        \* the local `signature` of appcast
    stages            \* the stages started in this run, in order

cred_vars == <<gpg_present, tempfiles, gpg_calls, resolved>>
tracker_vars == <<milestones, issues, tracker_changes>>
file_vars == <<app_dir, archive_file, notes_file, appcast_file>>
tool_vars == <<diff_rc, build_rc, archive_rc, sign_rc, signature>>
run_vars ==
    <<task, pc, err, milestone, appcast_url, release_notes, out, printed_notes,
      stages>>
vars == <<cred_vars, tracker_vars, proj_version, file_vars, tool_vars, run_vars>>

----------------------------------------------------------------------------
(* Bounds *)

MaxResolves == 3        \* calls of get_decrypted_key_path in one process
MaxTitleLen == 2        \* characters of a milestone title
MaxVersionLen == 3      \* characters of proj_version
MaxMilestones == 2      \* milestones of the tracker
MaxIssues == 3          \* closed issues of a milestone
MaxClosedAt == 2        \* distinct closed timestamps
MaxTrackerChanges == 1  \* changes of the tracker while one task runs

----------------------------------------------------------------------------
(* Strings *)

RECURSIVE SeqsUpTo(_, _)
SeqsUpTo(S, n) ==
    IF n = 0 THEN {<<>>}
    ELSE LET shorter == SeqsUpTo(S, n - 1)
         IN  shorter \cup {Append(s, c) : s \in shorter, c \in S}

\* A prefix test that also wants the prefix to end at a "." of s.
startswith_delimited(s, prefix) ==
    /\ Len(prefix) <= Len(s)
    /\ SubSeq(s, 1, Len(prefix)) = prefix
    /\ (Len(s) = Len(prefix) \/ s[Len(prefix) + 1] = 46)  \* '.'

\* str.startswith(prefix)
startswith(s, prefix) ==
    /\ Len(prefix) <= Len(s)
    /\ SubSeq(s, 1, Len(prefix)) = prefix

\* A suffix test that does not look at the first character of the suffix.
endswith_tail(s, suffix) ==
    /\ Len(suffix) - 1 <= Len(s)
    /\ SubSeq(s, Len(s) - Len(suffix) + 2, Len(s)) = Tail(suffix)

\* str.endswith(suffix)
endswith(s, suffix) ==
    /\ Len(suffix) <= Len(s)
    /\ SubSeq(s, Len(s) - Len(suffix) + 1, Len(s)) = suffix

\* The code points c with chr(c).isspace(): the characters str.strip()
\* removes.  9-13 are "\t", "\n", "\v", "\f", "\r"; 28-31 the separators
\* U+001C-U+001F; 32 the space; 133 and 160 U+0085 and U+00A0; 5760 U+1680;
\* 8192-8202 U+2000-U+200A; 8232, 8233, 8239, 8287 U+2028, U+2029, U+202F,
\* U+205F; 12288 U+3000.
Whitespace ==
    (9..13) \cup (28..32) \cup {133, 160, 5760} \cup (8192..8202)
    \cup {8232, 8233, 8239, 8287, 12288}

RECURSIVE lstrip(_)
lstrip(s) ==
    IF s # <<>> /\ Head(s) \in Whitespace THEN lstrip(Tail(s)) ELSE s

RECURSIVE rstrip(_)
rstrip(s) ==
    IF s # <<>> /\ s[Len(s)] \in Whitespace
    THEN rstrip(SubSeq(s, 1, Len(s) - 1)) ELSE s

\* str.strip()
strip(s) == rstrip(lstrip(s))

----------------------------------------------------------------------------
(* DecryptedFiles.get_decrypted_key_path *)

GpgSuffix == <<46, 103, 112, 103>>  \* '.gpg'

\* The source paths resolved: plaintext and encrypted ones, and two names that
\* contain "gpg" without ending with ".gpg".
KeyPaths ==
    { <<107>>,  \* 'k'
      <<103, 112, 103>>,  \* 'gpg'
      <<107, 46, 103, 112, 103>>,  \* 'k.gpg'
      <<106, 46, 103, 112, 103>>,  \* 'j.gpg'
      <<107, 46, 103, 112, 103, 120>> }  \* 'k.gpgx'

\* tempfile.NamedTemporaryFile() names a file that does not exist yet; the
\* retained files all exist, so the name differs from every retained one.
TempNames == 1..(MaxResolves + 1)
FreshNames == TempNames \ {tempfiles[i].name : i \in 1..Len(tempfiles)}

\* The path of the temporary file named n (fh.name).
Digits == <<49, 50, 51, 52, 53, 54, 55, 56, 57>>  \* '123456789'
TempPath(n) == <<47, 116, 109, 112, 47, Digits[n]>>  \* '/tmp/' and a digit

\* A resolution that wants the gpg tool whatever the path is.
ResolvePlainEager(path) ==
    /\ Len(resolved) < MaxResolves
    /\ ~endswith(path, GpgSuffix)
    /\ resolved' = Append(resolved,
                          IF gpg_present
                          THEN [path |-> path, raised |-> FALSE, error |-> "", result |-> path]
                          ELSE [path |-> path, raised |-> TRUE,
                                error |-> "NotImplementedError", result |-> <<>>])
    /\ UNCHANGED <<gpg_present, tempfiles, gpg_calls>>

\* Lines 32-33: a path without the suffix is returned as it is.
ResolvePlain(path) ==
    /\ Len(resolved) < MaxResolves
    /\ ~endswith(path, GpgSuffix)
    /\ resolved' = Append(resolved,
                          [path |-> path, raised |-> FALSE, error |-> "", result |-> path])
    /\ UNCHANGED <<gpg_present, tempfiles, gpg_calls>>

\* A resolution that keeps the latest temporary file only.
ResolveEncryptedKeepsLast(path) ==
    /\ Len(resolved) < MaxResolves
    /\ endswith(path, GpgSuffix)
    /\ gpg_present
    /\ \E n \in FreshNames :
        /\ tempfiles' = << [src |-> path, name |-> n, written |-> TRUE] >>
        /\ resolved' = Append(resolved,
                              [path |-> path, raised |-> FALSE, error |-> "",
                               result |-> TempPath(n)])
    /\ gpg_calls' = Append(gpg_calls, path)
    /\ UNCHANGED gpg_present

\* Lines 35-43 when gpg returns: the file handle is retained, gpg is run, its
\* output written to the file, the name of the file returned.
ResolveEncrypted(path) ==
    /\ Len(resolved) < MaxResolves
    /\ endswith(path, GpgSuffix)
    /\ gpg_present
    /\ \E n \in FreshNames :
        /\ tempfiles' = Append(tempfiles, [src |-> path, name |-> n, written |-> TRUE])
        /\ resolved' = Append(resolved,
                              [path |-> path, raised |-> FALSE, error |-> "",
                               result |-> TempPath(n)])
    /\ gpg_calls' = Append(gpg_calls, path)
    /\ UNCHANGED gpg_present

\* Lines 35-38 when gpg raises: NotImplementedError of the stub of line 12
\* when the tool is absent, sh.ErrorReturnCode when gpg exits non-zero.  The
\* handle was appended at line 36, before the call of line 38.
ResolveFails(path) ==
    /\ Len(resolved) < MaxResolves
    /\ endswith(path, GpgSuffix)
    /\ \E n \in FreshNames :
        tempfiles' = Append(tempfiles, [src |-> path, name |-> n, written |-> FALSE])
    /\ resolved' = Append(resolved,
                          [path |-> path, raised |-> TRUE,
                           error |-> IF gpg_present THEN "ErrorReturnCode"
                                     ELSE "NotImplementedError",
                           result |-> <<>>])
    /\ gpg_calls' = IF gpg_present THEN Append(gpg_calls, path) ELSE gpg_calls
    /\ UNCHANGED gpg_present

get_decrypted_key_path(path) ==
    \/ ResolvePlain(path)
    \/ ResolveEncrypted(path)
    \/ ResolveFails(path)

----------------------------------------------------------------------------
(* _find, _get_milestone *)

\* Python's None, in the shape of a milestone.
None == [title |-> <<>>, number |-> 0]

\* The loop of lines 175-177 from item i on; f maps each item to the truth
\* value of f(item).  None when the loop ends (the function returns nothing).
RECURSIVE find_from(_, _, _)
find_from(f, seq, i) ==
    IF i > Len(seq) THEN None
    ELSE IF f[seq[i]] THEN seq[i]
    ELSE find_from(f, seq, i + 1)

\* Lines 172-177.
_find(f, seq) == find_from(f, seq, 1)

\* lambda m: proj_version.startswith(m.title), on the milestones listed.
title_is_prefix ==
    [m \in {milestones[i] : i \in 1..Len(milestones)} |->
        startswith(proj_version, m.title)]

\* _get_milestone without the check of lines 185-186.
get_milestone_unchecked ==
    [ raised |-> FALSE,
      value |-> _find(title_is_prefix, milestones) ]

\* Lines 183-188: `raised` when line 186 raises, else `value` is returned.
_get_milestone ==
    LET m == _find(title_is_prefix, milestones)
    IN  IF m = None
        THEN [raised |-> TRUE, value |-> None]
        ELSE [raised |-> FALSE, value |-> m]

----------------------------------------------------------------------------
(* _gen_release_notes *)

\* shiftit.iter_issues(milestone=number, state=state): the issues of the
\* milestone in that state, in the order the tracker lists them.
iter_issues(number, state) ==
    SelectSeq(issues, LAMBDA i : i.milestone = number /\ i.state = state)

\* An insertion that puts x in front of the items with an equal key.
RECURSIVE insert_before_equal(_, _)
insert_before_equal(x, s) ==
    IF s = <<>> THEN <<x>>
    ELSE IF x.closed_at <= Head(s).closed_at THEN <<x>> \o s
    ELSE <<Head(s)>> \o insert_before_equal(x, Tail(s))

\* list.sort(key=lambda i: i.closed_at) is a stable sort.  One insertion of
\* the stable insertion sort: x goes behind every item whose key is not
\* greater than its own.
RECURSIVE insert_by_closed_at(_, _)
insert_by_closed_at(x, s) ==
    IF s = <<>> THEN <<x>>
    ELSE IF x.closed_at < Head(s).closed_at THEN <<x>> \o s
    ELSE <<Head(s)>> \o insert_by_closed_at(x, Tail(s))

\* Line 201.
RECURSIVE sort_by_closed_at(_)
sort_by_closed_at(s) ==
    IF s = <<>> THEN <<>>
    ELSE insert_by_closed_at(s[Len(s)], sort_by_closed_at(SubSeq(s, 1, Len(s) - 1)))

\* A context whose flag is set whatever the list holds.
notes_context_flag_set(m) ==
    LET closed_issues == sort_by_closed_at(iter_issues(m.number, "closed"))
    IN  [ has_issues |-> TRUE,
          issues |-> closed_issues,
          proj_version |-> proj_version,
          milestone_url |-> m.number ]

\* Lines 200-209: the context handed to the renderer.
notes_context(m) ==
    LET closed_issues == sort_by_closed_at(iter_issues(m.number, "closed"))
    IN  [ has_issues |-> Len(closed_issues) > 0,
          issues |-> closed_issues,
          proj_version |-> proj_version,
          milestone_url |-> m.number ]

NoContext ==
    [ has_issues |-> FALSE, issues |-> <<>>, proj_version |-> <<>>, milestone_url |-> 0 ]

\* pystache.render of the release notes templates (lines 59-92): the title
\* (HTML only), the section "Issues closed" with one item per issue when
\* has_issues is true, the link to the milestone.
render_notes(template, context) ==
    [ template |-> template,
      title |-> IF template = "html" THEN context.proj_version ELSE <<>>,
      section |-> context.has_issues,
      items |-> IF context.has_issues
                THEN [i \in 1..Len(context.issues) |-> context.issues[i].number]
                ELSE <<>>,
      milestone_url |-> context.milestone_url ]

\* A file that does not exist, a file truncated by open(path, "w"), and the
\* release notes left by an earlier release.
NoNotes ==
    [ template |-> "absent", title |-> <<>>, section |-> FALSE, items |-> <<>>,
      milestone_url |-> 0 ]
EmptyNotes ==
    [ template |-> "empty", title |-> <<>>, section |-> FALSE, items |-> <<>>,
      milestone_url |-> 0 ]
OldNotes ==
    [ template |-> "html", title |-> <<48>>, section |-> TRUE, items |-> <<1>>,
      milestone_url |-> 9 ]

----------------------------------------------------------------------------
(* Project settings derived from the version *)

\* Line 48.
proj_name == <<83, 104, 105, 102, 116, 73, 116>>  \* 'ShiftIt'

\* The format string of line 231:
\* 'https://github.com/citadelgrad/ShiftIt/releases/download/version-%s/%s'
DownloadUrlFormat ==
    <<
        104, 116, 116, 112, 115, 58, 47, 47, 103, 105, 116, 104, 117,
        98, 46, 99, 111, 109, 47, 99, 105, 116, 97, 100, 101, 108,
        103, 114, 97, 100, 47, 83, 104, 105, 102, 116, 73, 116, 47,
        114, 101, 108, 101, 97, 115, 101, 115, 47, 100, 111, 119, 110,
        108, 111, 97, 100, 47, 118, 101, 114, 115, 105, 111, 110, 45,
        37, 115, 47, 37, 115 >>

\* fmt % args for a format of %s conversions: each %s is replaced by the next
\* argument, the text of an argument is not looked at again.
RECURSIVE format(_, _)
format(fmt, args) ==
    IF fmt = <<>> THEN <<>>
    ELSE IF Len(fmt) >= 2 /\ fmt[1] = 37 /\ fmt[2] = 115  \* '%s'
    THEN Head(args) \o format(SubSeq(fmt, 3, Len(fmt)), Tail(args))
    ELSE <<Head(fmt)>> \o format(Tail(fmt), args)

\* os.path.join(a, b).
join(a, b) ==
    IF b # <<>> /\ Head(b) = 47 THEN b  \* '/'
    ELSE IF a = <<>> \/ a[Len(a)] = 47 THEN a \o b  \* '/'
    ELSE a \o <<47>> \o b  \* '/'

\* os.getcwd(): the directory the tasks are run in.
getcwd == <<47, 119>>  \* '/w'

\* Line 222.
proj_build_dir == join(getcwd, <<98, 117, 105, 108, 100>>)  \* 'build'

\* Line 228.
proj_archive_name ==
    proj_name \o <<45>> \o proj_version \o <<46, 122, 105, 112>>  \* '-', '.zip'

\* Line 229.
proj_archive_path == join(proj_build_dir, proj_archive_name)

\* Line 231 with the two arguments in the wrong order.
download_url_swapped ==
    format(DownloadUrlFormat, <<proj_archive_name, proj_version>>)

\* Line 231.
proj_download_url ==
    format(DownloadUrlFormat, <<proj_version, proj_archive_name>>)

----------------------------------------------------------------------------
(* The tasks *)

Tasks == {"info", "build", "archive", "release_notes", "appcast", "release"}

\* Positions with which archive does not run build first.
EntryArchiveOnly(t) ==
    CASE t = "info" -> "info"
      [] t = "build" -> "build"
      [] t = "archive" -> "archive"
      [] t = "release_notes" -> "notes_open"
      [] t = "appcast" -> "appcast_milestone"
      [] t = "release" -> "release_diff"

\* The first position of each task.
Entry(t) ==
    CASE t = "info" -> "info"
      [] t = "build" -> "build"
      [] t = "archive" -> "build"
      [] t = "release_notes" -> "notes_open"
      [] t = "appcast" -> "appcast_milestone"
      [] t = "release" -> "release_diff"

\* The exit codes an external command ends with.
ExitCodes == {0, 1}

\* What sign_update prints: nothing, a line end ("\n", "\r", "\r\n"), a
\* signature with surrounding whitespace.
SignOutputs ==
    { <<>>,
      <<10>>,            \* '\n'
      <<13>>,            \* '\r'
      <<115, 10>>,       \* 's\n'
      <<115, 13, 10>>,   \* 's\r\n'
      <<32, 115>>,       \* ' s'
      <<12, 115, 9>>,    \* '\fs\t'
      <<160, 115, 8232>> }  \* U+00A0, 's', U+2028

Line(l, n) == [line |-> l, n |-> n]

NoAppcast ==
    [ exists |-> FALSE, proj_appcast_url |-> <<>>, download_signature |-> <<>>,
      download_size |-> 0, proj_version |-> <<>>, date |-> 0 ]
OldAppcast ==
    [ exists |-> TRUE, proj_appcast_url |-> <<117>>,  \* 'u'
      download_signature |-> <<111>>, download_size |-> 1,  \* 'o'
      proj_version |-> <<48>>, date |-> 0 ]  \* '0'

\* An exception leaves the task: nothing catches it.
Raise(e) ==
    /\ pc' = "failed"
    /\ err' = e

\* The task is invoked from the command line.
Start(t) ==
    /\ pc = "idle"
    /\ task' = t
    /\ pc' = Entry(t)
    /\ UNCHANGED <<cred_vars, tracker_vars, proj_version, file_vars, tool_vars,
                   err, milestone, appcast_url, release_notes, out, printed_notes, stages>>

\* Lines 248-256.
Info ==
    /\ pc = "info"
    /\ out' = Append(out, Line("info", 0))
    /\ pc' = "done"
    /\ UNCHANGED <<cred_vars, tracker_vars, proj_version, file_vars, tool_vars,
                   task, err, milestone, appcast_url, release_notes, printed_notes, stages>>

\* A check of the working tree that aborts instead of warning.
ReleaseDiffAborts ==
    /\ pc = "release_diff"
    /\ \E rc \in ExitCodes :
        /\ diff_rc' = rc
        /\ IF rc = 0
           THEN Raise("PendingChanges")
           ELSE pc' = "release_milestone" /\ UNCHANGED err
    /\ stages' = Append(stages, "PreflightChecks")
    /\ UNCHANGED <<cred_vars, tracker_vars, proj_version, file_vars,
                   build_rc, archive_rc, sign_rc, signature,
                   task, milestone, appcast_url, release_notes, out, printed_notes>>

\* Lines 326-328: local() runs the command with warn=True and returns the
\* result; the warning is printed when `not return_code` holds.
ReleaseDiff ==
    /\ pc = "release_diff"
    /\ \E rc \in ExitCodes :
        /\ diff_rc' = rc
        /\ out' = IF rc = 0 THEN Append(out, Line("pending_warning", 0)) ELSE out
    /\ stages' = Append(stages, "PreflightChecks")
    /\ pc' = "release_milestone"
    /\ UNCHANGED <<cred_vars, tracker_vars, proj_version, file_vars,
                   build_rc, archive_rc, sign_rc, signature,
                   task, err, milestone, appcast_url, release_notes, printed_notes>>

\* A call of _get_milestone() at position `at`, continuing at `to`: the
\* tracker request fails, or line 186 raises, or the milestone is returned.
GetMilestoneAt(at, to) ==
    /\ pc = at
    /\ \E up \in BOOLEAN :
        IF ~up THEN Raise("TrackerError") /\ UNCHANGED milestone
        ELSE IF _get_milestone.raised
             THEN Raise("MilestoneNotFound") /\ UNCHANGED milestone
             ELSE /\ milestone' = _get_milestone.value
                  /\ pc' = to
                  /\ UNCHANGED err
    /\ UNCHANGED <<cred_vars, tracker_vars, proj_version, file_vars, tool_vars,
                   task, appcast_url, release_notes, out, printed_notes, stages>>

\* Line 330.
ReleaseMilestone == GetMilestoneAt("release_milestone", "release_open_issues")

\* Lines 331-335.
ReleaseOpenIssues ==
    /\ pc = "release_open_issues"
    /\ \E up \in BOOLEAN :
        IF ~up THEN Raise("TrackerError") /\ UNCHANGED out
        ELSE LET open_issues == iter_issues(milestone.number, "open")
             IN  /\ out' = IF Len(open_issues) > 0
                           THEN out \o <<Line("open_warning", 0)>>
                                \o [i \in 1..Len(open_issues) |->
                                       Line("open_issue", open_issues[i].number)]
                           ELSE out
                 /\ pc' = "appcast_milestone"
                 /\ UNCHANGED err
    /\ UNCHANGED <<cred_vars, tracker_vars, proj_version, file_vars, tool_vars,
                   task, milestone, appcast_url, release_notes, printed_notes, stages>>

\* Line 288.
AppcastMilestone == GetMilestoneAt("appcast_milestone", "appcast_plist")

\* An element of the parsed tree by its `text`, which is None for an element
\* without character data (<string></string>, <true/>).
Element(text) == [none |-> FALSE, text |-> text]
EmptyElement == [none |-> TRUE, text |-> <<>>]

\* 'SUFeedURL'
SUFeedURL == <<83, 85, 70, 101, 101, 100, 85, 82, 76>>  \* 'SUFeedURL'

\* zip(*[iter(elem)]*2): the elements two by two, kv[0] as `key` and kv[1] as
\* `value`; a last element without a partner is dropped.
pairs(elem) ==
    [i \in 1..(Len(elem) \div 2) |->
        [key |-> elem[2 * i - 1], value |-> elem[2 * i]]]

\* lambda kv: kv[0].text == 'SUFeedURL', on the pairs kvs.
is_feed_url(kvs) ==
    [kv \in {kvs[i] : i \in 1..Len(kvs)} |->
        ~kv.key.none /\ kv.key.text = SUFeedURL]

\* Lines 291-294 on the property list plist: the exception raised ("" when
\* none) and the value given to appcast_url.
\*   291  ElementTree.parse raises ParseError on a file that is not XML;
\*   292  find('dict') is None when the root has no <dict> child,
\*   293  and None.findall raises AttributeError;
\*   294  _find returns None when no pair has the key and None[1] raises
\*        TypeError; the text None of the value has no strip().
appcast_url_of(plist) ==
    IF ~plist.xml THEN [raised |-> "ParseError", value |-> <<>>]
    ELSE IF ~plist.has_dict THEN [raised |-> "AttributeError", value |-> <<>>]
    ELSE LET kvs == pairs(plist.elem)
             kv == _find(is_feed_url(kvs), kvs)
         IN  IF kv = None THEN [raised |-> "TypeError", value |-> <<>>]
             ELSE IF kv.value.none
                  THEN [raised |-> "AttributeError", value |-> <<>>]
                  ELSE [raised |-> "", value |-> strip(kv.value.text)]

\* The children of <dict> the file proj_info_plist can hold: none; no feed
\* entry; a key without a value; keys and values out of step; a feed entry
\* with no text, with blank text, after other entries, given twice.
PlistElements ==
    { << >>,
      << Element(<<75>>), Element(<<118>>) >>,  \* 'K', 'v'
      << Element(SUFeedURL) >>,
      << Element(<<118>>), Element(SUFeedURL), Element(<<117>>) >>,  \* 'v', 'u'
      << Element(SUFeedURL), EmptyElement >>,
      << Element(SUFeedURL), Element(<<32>>) >>,  \* ' '
      << Element(<<75>>), Element(<<118>>),  \* 'K', 'v'
         Element(SUFeedURL), Element(<<32, 117, 10>>) >>,  \* ' u\n'
      << EmptyElement, EmptyElement,
         Element(SUFeedURL), Element(<<117, 13, 10>>),  \* 'u\r\n'
         Element(SUFeedURL), Element(<<120>>) >> }  \* 'x'

\* The file proj_info_plist as line 291 finds it: a binary property list, XML
\* without a <dict> under the root, XML with a <dict>.
PropertyLists ==
    { [xml |-> FALSE, has_dict |-> FALSE, elem |-> << >>],
      [xml |-> TRUE, has_dict |-> FALSE, elem |-> << >>] }
    \cup { [xml |-> TRUE, has_dict |-> TRUE, elem |-> e] : e \in PlistElements }

\* Lines 291-294.
AppcastPlist ==
    /\ pc = "appcast_plist"
    /\ \E plist \in PropertyLists :
        LET read == appcast_url_of(plist)
        IN  IF read.raised # ""
            THEN Raise(read.raised) /\ UNCHANGED appcast_url
            ELSE /\ appcast_url' = read.value
                 /\ pc' = "build"
                 /\ UNCHANGED err
    /\ UNCHANGED <<cred_vars, tracker_vars, proj_version, file_vars, tool_vars,
                   task, milestone, release_notes, out, printed_notes, stages>>

\* Lines 258-265: xcodebuild; local() returns whatever the exit code.
Build ==
    /\ pc = "build"
    /\ \E rc \in ExitCodes :
        /\ build_rc' = rc
        /\ app_dir' = IF rc = 0 THEN TRUE ELSE app_dir
    /\ stages' = Append(stages, "Build")
    /\ pc' = IF task = "build" THEN "done" ELSE "archive"
    /\ UNCHANGED <<cred_vars, tracker_vars, proj_version,
                   archive_file, notes_file, appcast_file,
                   diff_rc, archive_rc, sign_rc, signature,
                   task, err, milestone, appcast_url, release_notes, out, printed_notes>>

\* An archive step after which appcast signs without writing the notes.
ArchiveThenSign ==
    /\ pc = "archive"
    /\ \E rc \in (IF app_dir THEN ExitCodes ELSE ExitCodes \ {0}) :
        /\ archive_rc' = rc
        /\ archive_file' = IF rc = 0 THEN 2 ELSE archive_file
    /\ stages' = Append(stages, "Archive")
    /\ pc' = IF task = "archive" THEN "done" ELSE "sign"
    /\ UNCHANGED <<cred_vars, tracker_vars, proj_version,
                   app_dir, notes_file, appcast_file,
                   diff_rc, build_rc, sign_rc, signature,
                   task, err, milestone, appcast_url, release_notes, out, printed_notes>>

\* Line 274: ditto; it cannot succeed without the application to archive.
Archive ==
    /\ pc = "archive"
    /\ \E rc \in (IF app_dir THEN ExitCodes ELSE ExitCodes \ {0}) :
        /\ archive_rc' = rc
        /\ archive_file' = IF rc = 0 THEN 2 ELSE archive_file
    /\ stages' = Append(stages, "Archive")
    /\ pc' = IF task = "archive" THEN "done" ELSE "notes_open"
    /\ UNCHANGED <<cred_vars, tracker_vars, proj_version,
                   app_dir, notes_file, appcast_file,
                   diff_rc, build_rc, sign_rc, signature,
                   task, err, milestone, appcast_url, release_notes, out, printed_notes>>

\* Line 278: open(path, "w") creates or truncates the file before line 279
\* evaluates _gen_release_notes.
NotesOpen ==
    /\ pc = "notes_open"
    /\ notes_file' = EmptyNotes
    /\ stages' = Append(stages, "RenderNotes")
    /\ pc' = "notes_milestone"
    /\ UNCHANGED <<cred_vars, tracker_vars, proj_version,
                   app_dir, archive_file, appcast_file, tool_vars,
                   task, err, milestone, appcast_url, release_notes, out, printed_notes>>

\* Line 198, called from line 279.
NotesMilestone == GetMilestoneAt("notes_milestone", "notes_render")

\* Lines 200-211 and 279-280.
NotesRender ==
    /\ pc = "notes_render"
    /\ \E up \in BOOLEAN :
        IF ~up
        THEN Raise("TrackerError") /\ UNCHANGED <<release_notes, notes_file, out>>
        ELSE /\ release_notes' = notes_context(milestone)
             /\ notes_file' = render_notes("html", release_notes')
             /\ out' = Append(out, Line("written", 0))
             /\ pc' = IF task = "release_notes" THEN "done" ELSE "sign"
             /\ UNCHANGED err
    /\ UNCHANGED <<cred_vars, tracker_vars, proj_version,
                   app_dir, archive_file, appcast_file, tool_vars,
                   task, milestone, appcast_url, printed_notes, stages>>

\* Lines 302-303: local(..., capture=True) returns the output of the tool
\* whatever its exit code; the signature is the stripped output.
Sign ==
    /\ pc = "sign"
    /\ \E rc \in ExitCodes, sign_result \in SignOutputs :
        /\ sign_rc' = rc
        /\ signature' = strip(sign_result)
    /\ stages' = Append(stages, "Sign")
    /\ pc' = "appcast_write"
    /\ UNCHANGED <<cred_vars, tracker_vars, proj_version, file_vars,
                   diff_rc, build_rc, archive_rc,
                   task, err, milestone, appcast_url, release_notes, out, printed_notes>>

\* Lines 306-318: os.path.getsize raises when the archive does not exist;
\* otherwise the feed is rendered and written.
AppcastWrite ==
    /\ pc = "appcast_write"
    /\ stages' = Append(stages, "RenderFeed")
    /\ IF archive_file = 0
       THEN Raise("OSError") /\ UNCHANGED appcast_file
       ELSE /\ appcast_file' = [ exists |-> TRUE,
                                 proj_appcast_url |-> appcast_url,
                                 download_signature |-> signature,
                                 download_size |-> archive_file,
                                 proj_version |-> proj_version,
                                 date |-> 1 ]
            /\ pc' = IF task = "appcast" THEN "done" ELSE "checklist"
            /\ UNCHANGED err
    /\ UNCHANGED <<cred_vars, tracker_vars, proj_version,
                   app_dir, archive_file, notes_file, tool_vars,
                   task, milestone, appcast_url, release_notes, out, printed_notes>>

\* Lines 340-350.
Checklist ==
    /\ pc = "checklist"
    /\ out' = Append(out, Line("checklist", 0))
    /\ stages' = Append(stages, "ReportChecklist")
    /\ pc' = "checklist_milestone"
    /\ UNCHANGED <<cred_vars, tracker_vars, proj_version, file_vars, tool_vars,
                   task, err, milestone, appcast_url, release_notes, printed_notes>>

\* Line 198, called from line 351.
ChecklistMilestone == GetMilestoneAt("checklist_milestone", "checklist_notes")

\* A checklist that also saves the Markdown notes in the release-notes file.
ChecklistNotesSaved ==
    /\ pc = "checklist_notes"
    /\ \E up \in BOOLEAN :
        IF ~up
        THEN Raise("TrackerError")
             /\ UNCHANGED <<release_notes, printed_notes, out, notes_file>>
        ELSE /\ release_notes' = notes_context(milestone)
             /\ printed_notes' = render_notes("md", release_notes')
             /\ notes_file' = printed_notes'
             /\ out' = out \o <<Line("notes_md", 0), Line("rule", 0)>>
             /\ pc' = "done"
             /\ UNCHANGED err
    /\ UNCHANGED <<cred_vars, tracker_vars, proj_version,
                   app_dir, archive_file, appcast_file, tool_vars,
                   task, milestone, appcast_url, stages>>

\* Lines 200-211 called from line 351, and line 352.
ChecklistNotes ==
    /\ pc = "checklist_notes"
    /\ \E up \in BOOLEAN :
        IF ~up
        THEN Raise("TrackerError") /\ UNCHANGED <<release_notes, printed_notes, out>>
        ELSE /\ release_notes' = notes_context(milestone)
             /\ printed_notes' = render_notes("md", release_notes')
             /\ out' = out \o <<Line("notes_md", 0), Line("rule", 0)>>
             /\ pc' = "done"
             /\ UNCHANGED err
    /\ UNCHANGED <<cred_vars, tracker_vars, proj_version, file_vars, tool_vars,
                   task, milestone, appcast_url, stages>>

----------------------------------------------------------------------------
(* The tracker *)

Milestone(title, number) == [title |-> title, number |-> number]
Closed(number, m, at) ==
    [number |-> number, milestone |-> m, state |-> "closed", closed_at |-> at]
Open(number, m) ==
    [number |-> number, milestone |-> m, state |-> "open", closed_at |-> 0]

\* The version the tasks run with, and the milestones of the tracker: none
\* whose title is a prefix of it, one, two.
TaskVersion == <<49, 46, 49>>  \* '1.1'
TrackerMilestones ==
    { << Milestone(<<50>>, 1) >>,  \* '2'
      << Milestone(<<49, 46>>, 1) >>,  \* '1.'
      << Milestone(<<50>>, 3), Milestone(<<49>>, 2),   \* '2', '1'
         Milestone(<<49, 46>>, 1) >> }                 \* '1.'

\* The issues of the tracker: none; two closed ones; closed ones listed
\* latest first, with open ones.
TrackerIssues ==
    { << >>,
      << Closed(10, 1, 1), Closed(12, 1, 2) >>,
      << Closed(12, 1, 2), Open(13, 1), Closed(10, 1, 1), Open(14, 1),
         Closed(15, 2, 1) >>,
      << Open(13, 2), Closed(16, 2, 2), Closed(15, 2, 2) >> }

\* Somebody edits the tracker while the task runs.
TrackerChange ==
    /\ pc \notin {"idle", "done", "failed"}
    /\ tracker_changes < MaxTrackerChanges
    /\ tracker_changes' = tracker_changes + 1
    /\ \E ms \in TrackerMilestones, is \in TrackerIssues :
        /\ <<ms, is>> # <<milestones, issues>>
        /\ milestones' = ms
        /\ issues' = is
    /\ UNCHANGED <<cred_vars, proj_version, file_vars, tool_vars, run_vars>>

----------------------------------------------------------------------------
(* The tasks of one process *)

\* line 53 resolved the token path at import.
CredAfterImport ==
    /\ gpg_present = TRUE
    /\ tempfiles = << [src |-> <<107, 46, 103, 112, 103>>,  \* 'k.gpg'
                        name |-> 1, written |-> TRUE] >>
    /\ gpg_calls = << <<107, 46, 103, 112, 103>> >>  \* 'k.gpg'
    /\ resolved = << [path |-> <<107, 46, 103, 112, 103>>, raised |-> FALSE,
                      error |-> "", result |-> TempPath(1)] >>

\* No external command has run yet.
NoToolRun ==
    /\ diff_rc = -1
    /\ build_rc = -1
    /\ archive_rc = -1
    /\ sign_rc = -1
    /\ signature = <<>>

\* No task has been invoked yet.
NoTaskRun ==
    /\ task = "none"
    /\ err = ""
    /\ milestone = None
    /\ appcast_url = <<>>
    /\ release_notes = NoContext
    /\ out = <<>>
    /\ printed_notes = NoNotes
    /\ stages = <<>>

\* The process after import: the token path resolved, the version read at
\* line 227, no task invoked yet; the files are absent or left by an earlier
\* release.
Init ==
    /\ CredAfterImport
    /\ milestones \in TrackerMilestones
    /\ issues \in TrackerIssues
    /\ tracker_changes = 0
    /\ proj_version = TaskVersion
    /\ app_dir \in BOOLEAN
    /\ archive_file \in {0, 1}
    /\ notes_file \in {NoNotes, OldNotes}
    /\ appcast_file \in {NoAppcast, OldAppcast}
    /\ NoToolRun
    /\ NoTaskRun
    /\ pc = "idle"

Step ==
    \/ Info
    \/ ReleaseDiff
    \/ ReleaseMilestone
    \/ ReleaseOpenIssues
    \/ AppcastMilestone
    \/ AppcastPlist
    \/ Build
    \/ Archive
    \/ NotesOpen
    \/ NotesMilestone
    \/ NotesRender
    \/ Sign
    \/ AppcastWrite
    \/ Checklist
    \/ ChecklistMilestone
    \/ ChecklistNotes

Next ==
    \/ \E t \in Tasks : Start(t)
    \/ Step
    \/ TrackerChange

Spec == Init /\ [][Next]_vars

\* The tasks make progress: every call returns or raises (section 5 of the
\* specification: sequential, blocking calls).
FairSpec == Spec /\ WF_vars(Step)

----------------------------------------------------------------------------
(* Credential resolution on its own: any calls of get_decrypted_key_path *)

CredInit ==
    /\ gpg_present \in BOOLEAN
    /\ tempfiles = <<>>
    /\ gpg_calls = <<>>
    /\ resolved = <<>>
    /\ milestones = <<>>
    /\ issues = <<>>
    /\ tracker_changes = 0
    /\ proj_version = <<>>
    /\ app_dir = FALSE
    /\ archive_file = 0
    /\ notes_file = NoNotes
    /\ appcast_file = NoAppcast
    /\ NoToolRun
    /\ NoTaskRun
    /\ pc = "import"

CredNext ==
    \E path \in KeyPaths :
        /\ get_decrypted_key_path(path)
        /\ UNCHANGED <<tracker_vars, proj_version, file_vars, tool_vars, run_vars>>

CredSpec == CredInit /\ [][CredNext]_vars

----------------------------------------------------------------------------
(* Milestone resolution on its own: any version, any milestones *)

Chars == {49, 46}  \* '1.'
Versions == SeqsUpTo(Chars, MaxVersionLen)
Titles == SeqsUpTo(Chars, MaxTitleLen) \ {<<>>}

\* The milestones of a tracker: titles are not empty, numbers count from 1.
MilestoneLists ==
    UNION { [1..n -> Titles] : n \in 0..MaxMilestones }

MilestoneInit ==
    /\ CredAfterImport
    /\ proj_version \in Versions
    /\ \E titles \in MilestoneLists :
        milestones = [i \in 1..Len(titles) |-> Milestone(titles[i], i)]
    /\ issues = <<>>
    /\ tracker_changes = 0
    /\ app_dir = FALSE
    /\ archive_file = 0
    /\ notes_file = NoNotes
    /\ appcast_file = NoAppcast
    /\ NoToolRun
    /\ NoTaskRun
    /\ pc = "get_milestone"

ResolveMilestone == GetMilestoneAt("get_milestone", "returned")

MilestoneSpec == MilestoneInit /\ [][ResolveMilestone]_vars

----------------------------------------------------------------------------
(* Release-notes generation on its own: any closed issues of the milestone *)

IssuePool == { Closed(n, 1, t) : n \in 1..MaxIssues, t \in 1..MaxClosedAt }

\* Issue numbers are unique in the tracker.
IssueLists ==
    { s \in SeqsUpTo(IssuePool, MaxIssues) :
        \A i, j \in 1..Len(s) : i # j => s[i].number # s[j].number }

\* The release_notes task at line 200: the file opened, the milestone found.
NotesInit ==
    /\ CredAfterImport
    /\ proj_version = <<49>>  \* '1'
    /\ milestones = << Milestone(<<49>>, 1) >>  \* '1'
    /\ issues \in IssueLists
    /\ tracker_changes = 0
    /\ app_dir = FALSE
    /\ archive_file = 0
    /\ notes_file = EmptyNotes
    /\ appcast_file = NoAppcast
    /\ NoToolRun
    /\ task = "release_notes"
    /\ err = ""
    /\ milestone = Milestone(<<49>>, 1)  \* '1'
    /\ appcast_url = <<>>
    /\ release_notes = NoContext
    /\ out = <<>>
    /\ printed_notes = NoNotes
    /\ stages = <<"RenderNotes">>
    /\ pc = "notes_render"

NotesSpec == NotesInit /\ [][NotesRender]_vars

----------------------------------------------------------------------------
(* Properties *)

Started(stage) == \E i \in 1..Len(stages) : stages[i] = stage
Printed(l) == \E i \in 1..Len(out) : out[i].line = l
IsPrefix(s, t) == Len(s) <= Len(t) /\ \A i \in 1..Len(s) : s[i] = t[i]
AfterFeed == {"checklist", "checklist_milestone", "checklist_notes", "done"}

\* A release in which every command exited with 0 and nothing raised.
ReleaseSucceeded ==
    /\ task = "release"
    /\ pc = "done"
    /\ build_rc = 0
    /\ archive_rc = 0
    /\ sign_rc = 0

StatedOrder ==
    << "Build", "Archive", "Sign", "RenderNotes", "RenderFeed", "PreflightChecks",
       "ReportChecklist" >>
ReleaseOrder ==
    << "PreflightChecks", "Build", "Archive", "RenderNotes", "Sign", "RenderFeed",
       "ReportChecklist" >>

\* C1 as stated: a release in which all stages succeed runs them in the order
\* Build, Archive, Sign, RenderNotes, RenderFeed, PreflightChecks,
\* ReportChecklist.
C1_StatedOrder == ReleaseSucceeded => stages = StatedOrder

\* C1 amended: the stages of a release start in the order PreflightChecks,
\* Build, Archive, RenderNotes, Sign, RenderFeed, ReportChecklist, each after
\* the one before it, and a release in which all stages succeed runs them all.
C1_ReleaseOrder ==
    /\ task = "release" => IsPrefix(stages, ReleaseOrder)
    /\ ReleaseSucceeded => stages = ReleaseOrder

C1_Witness == ReleaseSucceeded /\ signature # <<>> /\ Len(stages) = 7

\* C2: when the build tool exits non-zero the task fails at Build and no later
\* stage is executed.
C2_BuildFailureHalts ==
    build_rc > 0 =>
        /\ pc = "failed"
        /\ \A i \in 1..Len(stages) :
            stages[i] \notin {"Archive", "Sign", "RenderNotes", "RenderFeed",
                              "ReportChecklist"}

\* C3: when the stripped output of the signing tool is empty, the feed is not
\* written with an empty signature and the task does not go on past the feed.
C3_EmptySignatureAborts ==
    (Started("Sign") /\ signature = <<>>) =>
        /\ ~(appcast_file.date = 1 /\ appcast_file.download_signature = <<>>)
        /\ pc \notin AfterFeed

\* C4: two resolutions of the same encrypted path return the same plaintext
\* path, and gpg is invoked at most once for each source path.
C4_ResolveIdempotent ==
    /\ \A i, j \in 1..Len(resolved) :
        ( /\ resolved[i].path = resolved[j].path
          /\ endswith(resolved[i].path, GpgSuffix)
          /\ ~resolved[i].raised /\ ~resolved[j].raised )
        => resolved[i].result = resolved[j].result
    /\ \A p \in KeyPaths :
        Cardinality({i \in 1..Len(gpg_calls) : gpg_calls[i] = p}) <= 1

\* title is a prefix of v, character by character.
IsPrefixOf(title, v) ==
    /\ Len(title) <= Len(v)
    /\ \A i \in 1..Len(title) : title[i] = v[i]

\* C5: milestone resolution returns the first milestone, in the given order,
\* whose title is a prefix of the version (no delimiter is looked for), and
\* fails exactly when no title is a prefix of the version.
C5_FirstPrefixMatch ==
    /\ pc = "returned" =>
        \E k \in 1..Len(milestones) :
            /\ milestone = milestones[k]
            /\ IsPrefixOf(milestones[k].title, proj_version)
            /\ \A j \in 1..(k - 1) : ~IsPrefixOf(milestones[j].title, proj_version)
    /\ (pc = "failed" /\ err = "MilestoneNotFound") =>
        \A k \in 1..Len(milestones) : ~IsPrefixOf(milestones[k].title, proj_version)

\* Two titles are prefixes of the version "11"; the first one, "1", is returned
\* although no "." follows it in the version.
C5_Witness ==
    /\ pc = "returned"
    /\ proj_version = <<49, 49>>  \* '11'
    /\ Len(milestones) = 2
    /\ milestones[1].title = <<49>>  \* '1'
    /\ milestones[2].title = <<49, 49>>  \* '11'
    /\ milestone = milestones[1]

\* C6: when no milestone title is a prefix of the version (and the tracker is
\* not edited meanwhile), appcast and release run no build, archive or signing,
\* write neither file, print no checklist, and end in failure.
C6_NoMilestoneNoStage ==
    ( /\ task \in {"appcast", "release"}
      /\ tracker_changes = 0
      /\ \A k \in 1..Len(milestones) : ~IsPrefixOf(milestones[k].title, proj_version) )
    =>
        /\ \A i \in 1..Len(stages) : stages[i] = "PreflightChecks"
        /\ notes_file \in {NoNotes, OldNotes}
        /\ appcast_file \in {NoAppcast, OldAppcast}
        /\ ~Printed("checklist")
        /\ pc \in {"done", "failed"} =>
            /\ pc = "failed"
            /\ err \in {"MilestoneNotFound", "TrackerError"}

C6_Witness ==
    /\ task = "release"
    /\ pc = "failed"
    /\ err = "MilestoneNotFound"
    /\ tracker_changes = 0
    /\ stages = <<"PreflightChecks">>
    /\ notes_file = OldNotes

\* The position in s of the issue with the number of x.
IndexIn(s, x) == CHOOSE i \in 1..Len(s) : s[i].number = x.number

\* C7: the issues handed to the renderer are a permutation of the closed
\* issues fetched, their closed timestamps do not decrease, and issues with
\* equal timestamps keep their fetch order.
C7_StableSort ==
    pc = "done" =>
        LET fetched == iter_issues(milestone.number, "closed")
            handed == release_notes.issues
        IN  /\ Len(handed) = Len(fetched)
            /\ \A i \in 1..Len(fetched) : \E j \in 1..Len(handed) : handed[j] = fetched[i]
            /\ \A i, j \in 1..Len(handed) :
                i < j =>
                    /\ handed[i].closed_at <= handed[j].closed_at
                    /\ handed[i].closed_at = handed[j].closed_at
                        => IndexIn(fetched, handed[i]) < IndexIn(fetched, handed[j])

\* Three issues fetched latest first, the two earlier ones closed together.
C7_Witness ==
    /\ pc = "done"
    /\ Len(issues) = 3
    /\ issues[1].closed_at = 2
    /\ issues[2].closed_at = 1
    /\ issues[3].closed_at = 1
    /\ release_notes.issues = <<issues[2], issues[3], issues[1]>>

\* C8: when the signing tool exits non-zero the feed is not written in that
\* run and the task does not go on to the feed or the checklist.
C8_SignFailureIsFatal ==
    sign_rc > 0 =>
        /\ appcast_file.date # 1
        /\ pc \notin AfterFeed

\* C9: the release prints the pending-changes warning if and only if the
\* working-tree check exits non-zero.
C9_WarningIffDirty ==
    Started("PreflightChecks") => (Printed("pending_warning") <=> diff_rc # 0)

\* The numbers of the open issues listed by line 335, in order.
ListedIssues ==
    LET listed == SelectSeq(out, LAMBDA l : l.line = "open_issue")
    IN  [i \in 1..Len(listed) |-> listed[i].n]

\* The exceptions of the stages: milestone resolution, tracker requests, the
\* feed URL of the property list, the size of the archive.
StageErrors ==
    { "MilestoneNotFound", "TrackerError", "ParseError", "AttributeError",
      "TypeError", "OSError" }

C10_Advisory ==
    task = "release" =>
        /\ pc = "failed" => err \in StageErrors
        /\ pc = "done" => Printed("checklist") /\ Printed("notes_md")
        /\ (pc \in {"appcast_milestone", "done"} /\ tracker_changes = 0) =>
            LET open_issues == iter_issues(milestone.number, "open")
            IN  /\ ListedIssues = [i \in 1..Len(open_issues) |-> open_issues[i].number]
                /\ Len(open_issues) > 0 => Printed("open_warning")

\* C10: a release is aborted by a failing stage only, never by the state of
\* the working tree or by open issues: it ends, and when no stage raised it
\* ends with the checklist printed; the open issues are each listed.
C10_AdvisoryNeverAborts ==
    /\ []C10_Advisory
    /\ (task = "release" /\ pc = "release_diff") ~> (pc \in {"done", "failed"})

\* A release that printed the pending-changes warning and listed two open
\* issues, and went on to print the checklist.
C10_Witness ==
    /\ task = "release"
    /\ pc = "done"
    /\ Printed("pending_warning")
    /\ ListedIssues = <<13, 14>>
    /\ Printed("checklist")

\* C11: the has-items flag of the context is true exactly when the list of
\* closed issues is not empty; the rendered notes, HTML and Markdown, have the
\* section "Issues closed" exactly when the flag is true, and notes with zero
\* closed issues are rendered without it.
C11_HasIssuesFlag ==
    /\ release_notes.has_issues <=> Len(release_notes.issues) > 0
    /\ (pc = "sign" \/ (pc = "done" /\ task = "release_notes")) =>
        /\ notes_file.section = release_notes.has_issues
        /\ ~notes_file.section => notes_file.items = <<>>
        /\ tracker_changes = 0 =>
            (release_notes.has_issues <=> iter_issues(milestone.number, "closed") # <<>>)
    /\ (pc = "done" /\ task = "release") =>
        /\ printed_notes.section = release_notes.has_issues
        /\ ~printed_notes.section => printed_notes.items = <<>>
        /\ tracker_changes = 0 =>
            (release_notes.has_issues <=> iter_issues(milestone.number, "closed") # <<>>)

\* A release of a milestone without closed issues: both notes rendered, none
\* with the section.
C11_Witness ==
    /\ task = "release"
    /\ pc = "done"
    /\ tracker_changes = 0
    /\ iter_issues(milestone.number, "closed") = <<>>
    /\ notes_file.template = "html"
    /\ ~notes_file.section
    /\ printed_notes.template = "md"
    /\ ~printed_notes.section

Count(stage) == Cardinality({i \in 1..Len(stages) : stages[i] = stage})

\* C12: archive runs build first; appcast runs archive, then release_notes,
\* then signs and writes the feed; release runs appcast before the checklist,
\* and in a release that succeeds the build, the archive, the notes, the
\* signing and the feed are each run once.
C12_Dependencies ==
    /\ task = "archive" =>
        /\ IsPrefix(stages, <<"Build", "Archive">>)
        /\ pc = "done" => Len(stages) = 2
    /\ task = "appcast" =>
        /\ IsPrefix(stages, <<"Build", "Archive", "RenderNotes", "Sign", "RenderFeed">>)
        /\ pc = "done" => Len(stages) = 5
    /\ (task = "release" /\ Started("ReportChecklist")) =>
        /\ \A s \in {"Build", "Archive", "RenderNotes", "Sign", "RenderFeed"} :
            Count(s) = 1
        /\ stages[Len(stages)] = "ReportChecklist"
    /\ ReleaseSucceeded =>
        /\ Started("ReportChecklist")
        /\ notes_file.template = "html"
        /\ appcast_file.date = 1
        /\ archive_file = 2

C12_Witness ==
    /\ task = "appcast"
    /\ pc = "done"
    /\ build_rc = 0
    /\ archive_rc = 0
    /\ sign_rc = 0
    /\ stages = <<"Build", "Archive", "RenderNotes", "Sign", "RenderFeed">>

\* The last four characters of p are ".gpg".
HasGpgSuffix(p) ==
    /\ Len(p) >= 4
    /\ p[Len(p) - 3] = 46  \* '.'
    /\ p[Len(p) - 2] = 103  \* 'g'
    /\ p[Len(p) - 1] = 112  \* 'p'
    /\ p[Len(p)] = 103  \* 'g'

\* C13: without the gpg tool, the resolution of a path without the suffix
\* returns normally, and NotImplementedError is raised exactly by the
\* resolutions of paths with the suffix.
C13_LazyDecryptionError ==
    ~gpg_present =>
        /\ gpg_calls = <<>>
        /\ \A i \in 1..Len(resolved) :
            IF HasGpgSuffix(resolved[i].path)
            THEN resolved[i].raised /\ resolved[i].error = "NotImplementedError"
            ELSE ~resolved[i].raised /\ resolved[i].result = resolved[i].path

C13_Witness ==
    /\ ~gpg_present
    /\ Len(resolved) = 2
    /\ resolved[1].path = <<107>>  \* 'k'
    /\ ~resolved[1].raised
    /\ resolved[2].path = <<107, 46, 103, 112, 103>>  \* 'k.gpg'
    /\ resolved[2].error = "NotImplementedError"

\* C14: a resolution of a path without the suffix returns the path, invokes
\* no gpg, creates no temporary file and leaves the retained files as they are.
C14_PlainPathNoOp ==
    [][ ( /\ Len(resolved') = Len(resolved) + 1
          /\ ~HasGpgSuffix(resolved'[Len(resolved')].path) )
        => /\ ~resolved'[Len(resolved')].raised
           /\ resolved'[Len(resolved')].result = resolved'[Len(resolved')].path
           /\ tempfiles' = tempfiles
           /\ gpg_calls' = gpg_calls ]_vars

\* The path "gpg", without the suffix, resolved after an encrypted one.
C14_Witness ==
    /\ Len(resolved) = 2
    /\ resolved[1].path = <<107, 46, 103, 112, 103>>  \* 'k.gpg'
    /\ ~resolved[1].raised
    /\ resolved[2].path = <<103, 112, 103>>  \* 'gpg'
    /\ resolved[2].result = <<103, 112, 103>>  \* 'gpg'
    /\ Len(tempfiles) = 1
    /\ Len(gpg_calls) = 1

\* The address the releases are downloaded from, without the last "/":
\* 'https://github.com/citadelgrad/ShiftIt/releases/download'
DownloadBase ==
    <<
        104, 116, 116, 112, 115, 58, 47, 47, 103, 105, 116, 104, 117,
        98, 46, 99, 111, 109, 47, 99, 105, 116, 97, 100, 101, 108,
        103, 114, 97, 100, 47, 83, 104, 105, 102, 116, 73, 116, 47,
        114, 101, 108, 101, 97, 115, 101, 115, 47, 100, 111, 119, 110,
        108, 111, 97, 100 >>

\* C15: the archive name is the project name, "-", the version and ".zip";
\* the download URL is the base, "/version-", the version, "/" and that
\* archive name; the archive path ends with the same name.
C15_ArchiveNaming ==
    LET v == proj_version
        name == proj_archive_name
    IN  /\ Len(name) = Len(proj_name) + 1 + Len(v) + 4
        /\ SubSeq(name, 1, Len(proj_name))
             = <<83, 104, 105, 102, 116, 73, 116>>  \* 'ShiftIt'
        /\ name[Len(proj_name) + 1] = 45  \* '-'
        /\ SubSeq(name, Len(proj_name) + 2, Len(proj_name) + 1 + Len(v)) = v
        /\ SubSeq(name, Len(name) - 3, Len(name))
             = <<46, 122, 105, 112>>  \* '.zip'
        /\ proj_download_url
             = DownloadBase
               \o <<47, 118, 101, 114, 115, 105, 111, 110, 45>>  \* '/version-'
               \o v
               \o <<47>> \o name  \* '/'
        /\ Len(proj_archive_path) > Len(name)
        /\ SubSeq(proj_archive_path, Len(proj_archive_path) - Len(name),
                  Len(proj_archive_path)) = <<47>> \o name  \* '/'

\* Version "1.1": ShiftIt-1.1.zip, .../version-1.1/ShiftIt-1.1.zip.
C15_Witness ==
    /\ proj_version = <<49, 46, 49>>  \* '1.1'
    \* 'ShiftIt-1.1.zip'
    /\ proj_archive_name
         = <<83, 104, 105, 102, 116, 73, 116, 45, 49, 46, 49, 46, 122, 105, 112>>
    \* the base, '/version-1.1/', 'ShiftIt-1.1.zip'
    /\ proj_download_url
         = DownloadBase
           \o <<47, 118, 101, 114, 115, 105, 111, 110, 45, 49, 46, 49, 47>>
           \o <<83, 104, 105, 102, 116, 73, 116, 45, 49, 46, 49, 46, 122, 105, 112>>
    /\ pc = "returned"

\* C16: the signing tool runs only after the archive command succeeded, with
\* the archive in place; after a failed archive command neither the signing
\* tool runs nor is the size of the archive read for the feed.
C16_SignNeedsArchive ==
    /\ Started("Sign") => (archive_rc = 0 /\ archive_file # 0)
    /\ archive_rc > 0 => (~Started("Sign") /\ ~Started("RenderFeed"))

\* C17: from the start of the checklist on, the release-notes file, the feed,
\* the archive, the build output and the retained credentials stay as they
\* are, no tool is run and no other stage starts.
C17_ChecklistIsTerminal ==
    [][ (Started("ReportChecklist") \/ Started("ReportChecklist")')
        => /\ UNCHANGED <<file_vars, cred_vars, tool_vars>>
           /\ Started("ReportChecklist") => stages' = stages ]_vars

C17_Witness ==
    /\ task = "release"
    /\ pc = "done"
    /\ Started("ReportChecklist")
    /\ Printed("notes_md")
    /\ notes_file.template = "html"
    /\ appcast_file.date = 1
    /\ Len(tempfiles) = 1

\* C18: every path returned for an encrypted source is the name of a retained
\* temporary file of that source, and the retained files only grow: a step
\* keeps those there are, in order.
C18_Backed ==
    \A i \in 1..Len(resolved) :
        (HasGpgSuffix(resolved[i].path) /\ ~resolved[i].raised) =>
            \E j \in 1..Len(tempfiles) :
                /\ tempfiles[j].src = resolved[i].path
                /\ TempPath(tempfiles[j].name) = resolved[i].result

C18_TempfilesRetained ==
    /\ []C18_Backed
    /\ [][IsPrefix(tempfiles, tempfiles')]_vars

C18_Witness ==
    /\ Len(resolved) = 3
    /\ \A i \in 1..3 : HasGpgSuffix(resolved[i].path) /\ ~resolved[i].raised
    /\ Len(tempfiles) = 3

\* C19: in one release the HTML notes written and the Markdown notes printed
\* come from the same milestone and the same list of closed issues.
C19_SameNotes ==
    (task = "release" /\ pc = "done") =>
        /\ printed_notes.milestone_url = notes_file.milestone_url
        /\ printed_notes.section = notes_file.section
        /\ printed_notes.items = notes_file.items

\* The resolutions of encrypted paths that returned a path.
Returned == {i \in 1..Len(resolved) : HasGpgSuffix(resolved[i].path) /\ ~resolved[i].raised}

\* C20: a release_notes task that fails while generating the notes leaves the
\* release-notes file as it was, and a resolution whose decryption fails adds
\* no temporary file to the retained ones.
C20_FailureLeavesState ==
    /\ (task = "release_notes" /\ pc = "failed") => notes_file \in {NoNotes, OldNotes}
    /\ Len(tempfiles) = Cardinality(Returned)

====
